---- MODULE Spec2Model ----
(***************************************************************************)
(* Patient list application: the mock FHIR search endpoint (GET /Patient), *)
(* the client accessor (FHIRService) and the list controller (PatientList).*)
(* Strings are sequences of one-character strings so that toLowerCase,     *)
(* includes, join, parseInt and localeCompare are computed, not assumed.   *)
(***************************************************************************)
EXTENDS Integers, Sequences, FiniteSets, TLC

(* ------------------------------------------------------------------ *)
(* JavaScript string primitives used by the source                      *)
(* ------------------------------------------------------------------ *)
UpperCaseLetters == <<"A", "B", "C", "D", "E", "F", "G", "H", "I", "J", "K", "L", "M", "N", "O", "P", "Q", "R", "S", "T", "U", "V", "W", "X", "Y", "Z">>

LowerCaseLetters == <<"a", "b", "c", "d", "e", "f", "g", "h", "i", "j", "k", "l", "m", "n", "o", "p", "q", "r", "s", "t", "u", "v", "w", "x", "y", "z">>

\* the lower-case form of each upper-case letter
lowerCaseOf ==
  [c \in {UpperCaseLetters[i] : i \in 1..Len(UpperCaseLetters)} |->
     LowerCaseLetters[CHOOSE i \in 1..Len(UpperCaseLetters) : UpperCaseLetters[i] = c]]

toLowerChar(c) == IF c \in DOMAIN lowerCaseOf THEN lowerCaseOf[c] ELSE c

\* String.prototype.toLowerCase
toLowerCase(s) == [i \in 1..Len(s) |-> toLowerChar(s[i])]

\* Array.prototype.join
RECURSIVE join(_, _)
join(parts, sep) ==
  IF Len(parts) = 0 THEN <<>>
  ELSE IF Len(parts) = 1 THEN parts[1]
  ELSE parts[1] \o sep \o join(Tail(parts), sep)

\* String.prototype.includes: scan the start positions left to right
RECURSIVE includes(_, _)
includes(s, t) ==
  IF Len(t) > Len(s) THEN FALSE
  ELSE IF SubSeq(s, 1, Len(t)) = t THEN TRUE
  ELSE includes(Tail(s), t)

\* Collation order of the characters that occur in lower-cased sort keys:
\* white space, then punctuation, then digits, then letters.
Collation == <<" ", "-", "0", "1", "2", "3", "4", "5", "6", "7", "8", "9", "a", "b", "c", "d", "e", "f", "g", "h", "i", "j", "k", "l", "m", "n", "o", "p", "q", "r", "s", "t", "u", "v", "w", "x", "y", "z">>

rankOf ==
  [c \in {Collation[i] : i \in 1..Len(Collation)} |->
     CHOOSE i \in 1..Len(Collation) : Collation[i] = c]

collationRank(c) == IF c \in DOMAIN rankOf THEN rankOf[c] ELSE 0

\* String.prototype.localeCompare on lower-cased keys: -1, 0 or 1
RECURSIVE localeCompare(_, _)
localeCompare(a, b) ==
  IF a = <<>> /\ b = <<>> THEN 0
  ELSE IF a = <<>> THEN -1
  ELSE IF b = <<>> THEN 1
  ELSE IF collationRank(Head(a)) < collationRank(Head(b)) THEN -1
  ELSE IF collationRank(Head(a)) > collationRank(Head(b)) THEN 1
  ELSE localeCompare(Tail(a), Tail(b))

(* ------------------------------------------------------------------ *)
(* JavaScript numbers: a value or NaN                                   *)
(* ------------------------------------------------------------------ *)
NaN == [nan |-> TRUE, v |-> 0]

Num(n) == [nan |-> FALSE, v |-> n]

plus(a, b) == IF a.nan \/ b.nan THEN NaN ELSE Num(a.v + b.v)

Min(a, b) == IF a < b THEN a ELSE b

Max(a, b) == IF a > b THEN a ELSE b

HexDigits == <<"0", "1", "2", "3", "4", "5", "6", "7", "8", "9", "a", "b", "c", "d", "e", "f">>

valueOf ==
  [c \in {HexDigits[i] : i \in 1..Len(HexDigits)} |->
     (CHOOSE i \in 1..Len(HexDigits) : HexDigits[i] = c) - 1]

\* value of a digit character, or 99 when the character is no digit
digitValue(c) ==
  IF toLowerChar(c) \in DOMAIN valueOf THEN valueOf[toLowerChar(c)] ELSE 99

RECURSIVE skipWhiteSpace(_)
skipWhiteSpace(s) ==
  IF s # <<>> /\ Head(s) = " " THEN skipWhiteSpace(Tail(s)) ELSE s

\* accumulate the longest prefix of digits of the radix; acc.seen says
\* whether at least one digit was read
RECURSIVE readDigits(_, _, _)
readDigits(s, radix, acc) ==
  IF s # <<>> /\ digitValue(Head(s)) < radix
  THEN readDigits(Tail(s), radix, [seen |-> TRUE, v |-> acc.v * radix + digitValue(Head(s))])
  ELSE acc

\* parseInt(string) without a radix argument
parseInt(str) ==
  LET s0   == skipWhiteSpace(str)
      neg  == s0 # <<>> /\ Head(s0) = "-"
      s1   == IF s0 # <<>> /\ Head(s0) \in {"-", "+"} THEN Tail(s0) ELSE s0
      hex  == Len(s1) >= 2 /\ s1[1] = "0" /\ s1[2] \in {"x", "X"}
      s2   == IF hex THEN Tail(Tail(s1)) ELSE s1
      r    == readDigits(s2, IF hex THEN 16 ELSE 10, [seen |-> FALSE, v |-> 0])
  IN  IF ~r.seen THEN NaN ELSE Num(IF neg THEN 0 - r.v ELSE r.v)

\* Array.prototype.slice(start, end); NaN converts to 0, a negative index
\* counts from the end, both are clamped to the length
relativeIndex(n, len) ==
  IF n.nan THEN 0
  ELSE IF n.v < 0 THEN Max(len + n.v, 0)
  ELSE Min(n.v, len)

slice(arr, start, end) ==
  SubSeq(arr, relativeIndex(start, Len(arr)) + 1, relativeIndex(end, Len(arr)))

(* ------------------------------------------------------------------ *)
(* Dates: "YYYY-MM-DD" strings and the (year, month, day) of a Date     *)
(* ------------------------------------------------------------------ *)
isDigit(c) == digitValue(c) < 10

daysInMonth(y, m) ==
  IF m \in {4, 6, 9, 11} THEN 30
  ELSE IF m = 2 THEN (IF (y % 4 = 0 /\ y % 100 # 0) \/ y % 400 = 0 THEN 29 ELSE 28)
  ELSE 31

\* new Date(string) for a date-only ISO string; valid = ~isNaN(getTime())
newDate(s) ==
  IF /\ Len(s) = 10
     /\ s[5] = "-" /\ s[8] = "-"
     /\ \A i \in {1, 2, 3, 4, 6, 7, 9, 10} : isDigit(s[i])
  THEN LET y == readDigits(SubSeq(s, 1, 4), 10, [seen |-> FALSE, v |-> 0]).v
           m == readDigits(SubSeq(s, 6, 7), 10, [seen |-> FALSE, v |-> 0]).v
           d == readDigits(SubSeq(s, 9, 10), 10, [seen |-> FALSE, v |-> 0]).v
       IN  IF m \in 1..12 /\ d \in 1..daysInMonth(y, m)
           THEN [valid |-> TRUE, y |-> y, m |-> m, d |-> d]
           ELSE [valid |-> FALSE, y |-> 0, m |-> 0, d |-> 0]
  ELSE [valid |-> FALSE, y |-> 0, m |-> 0, d |-> 0]

\* getFullYear / getMonth / getDate: the fields of a Date in the time zone
\* of the runtime.  A date-only string is parsed as midnight UTC, so west
\* of UTC (negative offset) the local fields are those of the day before.
previousDay(date) ==
  IF date.d > 1 THEN [date EXCEPT !.d = date.d - 1]
  ELSE IF date.m > 1
  THEN [date EXCEPT !.m = date.m - 1, !.d = daysInMonth(date.y, date.m - 1)]
  ELSE [date EXCEPT !.y = date.y - 1, !.m = 12, !.d = 31]

localFields(date, utcOffset) ==
  IF date.valid /\ utcOffset < 0 THEN previousDay(date) ELSE date

(* ------------------------------------------------------------------ *)
(* The record store                                                     *)
(* ------------------------------------------------------------------ *)
\* the fixed dataset of the mock endpoint
mockPatients ==
  <<
  [id |-> "1", identifier |-> <<"M", "R", "N", "-", "0", "0", "1">>, active |-> TRUE,
   given |-> <<<<"J", "o", "h", "n">>, <<"D", "a", "v", "i", "d">>>>,
   family |-> <<"S", "m", "i", "t", "h">>, gender |-> <<"m", "a", "l", "e">>,
   birthDate |-> <<"1", "9", "8", "5", "-", "0", "3", "-", "1", "5">>],
  [id |-> "2", identifier |-> <<"M", "R", "N", "-", "0", "0", "2">>, active |-> TRUE,
   given |-> <<<<"S", "a", "r", "a", "h">>, <<"E", "l", "i", "z", "a", "b", "e", "t", "h">>>>,
   family |-> <<"J", "o", "h", "n", "s", "o", "n">>, gender |-> <<"f", "e", "m", "a", "l", "e">>,
   birthDate |-> <<"1", "9", "9", "2", "-", "0", "7", "-", "2", "2">>],
  [id |-> "3", identifier |-> <<"M", "R", "N", "-", "0", "0", "3">>, active |-> FALSE,
   given |-> <<<<"M", "i", "c", "h", "a", "e", "l">>, <<"R", "o", "b", "e", "r", "t">>>>,
   family |-> <<"B", "r", "o", "w", "n">>, gender |-> <<"m", "a", "l", "e">>,
   birthDate |-> <<"1", "9", "7", "8", "-", "1", "1", "-", "0", "8">>],
  [id |-> "4", identifier |-> <<"M", "R", "N", "-", "0", "0", "4">>, active |-> TRUE,
   given |-> <<<<"E", "m", "i", "l", "y">>, <<"G", "r", "a", "c", "e">>>>,
   family |-> <<"D", "a", "v", "i", "s">>, gender |-> <<"f", "e", "m", "a", "l", "e">>,
   birthDate |-> <<"1", "9", "9", "5", "-", "1", "2", "-", "0", "3">>],
  [id |-> "5", identifier |-> <<"M", "R", "N", "-", "0", "0", "5">>, active |-> TRUE,
   given |-> <<<<"R", "o", "b", "e", "r", "t">>, <<"J", "a", "m", "e", "s">>>>,
   family |-> <<"W", "i", "l", "s", "o", "n">>, gender |-> <<"m", "a", "l", "e">>,
   birthDate |-> <<"1", "9", "8", "9", "-", "0", "9", "-", "1", "8">>]
  >>


\* the records of an external FHIR server (NEXT_PUBLIC_FHIR_BASE_URL): the
\* same five records followed by seven more, more than one page of ten
externalPatients ==
  mockPatients \o
  <<
  [id |-> "6", identifier |-> <<"M", "R", "N", "-", "0", "0", "6">>, active |-> TRUE,
   given |-> <<<<"A", "n", "n", "a">>, <<"M", "a", "r", "i", "e">>>>,
   family |-> <<"L", "o", "p", "e", "z">>, gender |-> <<"f", "e", "m", "a", "l", "e">>,
   birthDate |-> <<"1", "9", "9", "0", "-", "0", "1", "-", "0", "1">>],
  [id |-> "7", identifier |-> <<"M", "R", "N", "-", "0", "0", "7">>, active |-> TRUE,
   given |-> <<<<"P", "e", "t", "e", "r">>, <<"A", "l", "a", "n">>>>,
   family |-> <<"Y", "o", "u", "n", "g">>, gender |-> <<"m", "a", "l", "e">>,
   birthDate |-> <<"1", "9", "7", "0", "-", "0", "5", "-", "2", "0">>],
  [id |-> "8", identifier |-> <<"M", "R", "N", "-", "0", "0", "8">>, active |-> FALSE,
   given |-> <<<<"L", "i", "n", "d", "a">>, <<"S", "u", "e">>>>,
   family |-> <<"C", "a", "r", "t", "e", "r">>, gender |-> <<"f", "e", "m", "a", "l", "e">>,
   birthDate |-> <<"2", "0", "0", "1", "-", "0", "2", "-", "2", "8">>],
  [id |-> "9", identifier |-> <<"M", "R", "N", "-", "0", "0", "9">>, active |-> TRUE,
   given |-> <<<<"O", "m", "a", "r">>, <<"A", "l", "i">>>>,
   family |-> <<"H", "a", "s", "s", "a", "n">>, gender |-> <<"m", "a", "l", "e">>,
   birthDate |-> <<"1", "9", "6", "5", "-", "1", "0", "-", "3", "0">>],
  [id |-> "10", identifier |-> <<"M", "R", "N", "-", "0", "1", "0">>, active |-> TRUE,
   given |-> <<<<"N", "i", "n", "a">>, <<"R", "o", "s", "e">>>>,
   family |-> <<"J", "a", "c", "k", "s", "o", "n">>, gender |-> <<"f", "e", "m", "a", "l", "e">>,
   birthDate |-> <<"1", "9", "8", "8", "-", "0", "8", "-", "0", "8">>],
  [id |-> "11", identifier |-> <<"M", "R", "N", "-", "0", "1", "1">>, active |-> TRUE,
   given |-> <<<<"C", "a", "r", "l">>, <<"J", "o", "h", "n">>>>,
   family |-> <<"E", "v", "a", "n", "s">>, gender |-> <<"m", "a", "l", "e">>,
   birthDate |-> <<"1", "9", "9", "9", "-", "1", "2", "-", "3", "1">>],
  [id |-> "12", identifier |-> <<"M", "R", "N", "-", "0", "1", "2">>, active |-> FALSE,
   given |-> <<<<"R", "u", "t", "h">>, <<"A", "n", "n">>>>,
   family |-> <<"M", "o", "r", "r", "i", "s">>, gender |-> <<"f", "e", "m", "a", "l", "e">>,
   birthDate |-> <<"1", "9", "5", "0", "-", "0", "6", "-", "1", "5">>]
  >>


(* ------------------------------------------------------------------ *)
(* ------------------------------------------------------------------ *)
s_John == <<"J", "o", "h", "n">>

s_john == <<"j", "o", "h", "n">>

s_JOHN == <<"J", "O", "H", "N">>

s_Smi == <<"S", "m", "i">>

s_MRN002 == <<"M", "R", "N", "-", "0", "0", "2">>

s_mrn00 == <<"m", "r", "n", "-", "0", "0">>

s_d_s == <<"d", " ", "s">>

s_nonexistent == <<"n", "o", "n", "e", "x", "i", "s", "t", "e", "n", "t">>

s_son == <<"s", "o", "n">>

s_Robert == <<"R", "o", "b", "e", "r", "t">>

s_male == <<"m", "a", "l", "e">>

s_female == <<"f", "e", "m", "a", "l", "e">>

s_MALE == <<"M", "A", "L", "E">>

s_other == <<"o", "t", "h", "e", "r">>

s_true == <<"t", "r", "u", "e">>

s_false == <<"f", "a", "l", "s", "e">>

s_TRUE == <<"T", "R", "U", "E">>

s_yes == <<"y", "e", "s">>

s_Name == <<"N", "a", "m", "e">>

s_MRN == <<"M", "R", "N">>

s_Age == <<"A", "g", "e">>

s_name == <<"n", "a", "m", "e">>

s_asc == <<"a", "s", "c">>

s_desc == <<"d", "e", "s", "c">>

s_ASC == <<"A", "S", "C">>

s_n0 == <<"0">>

s_n1 == <<"1">>

s_n2 == <<"2">>

s_n5 == <<"5">>

s_n7 == <<"7">>

s_n10 == <<"1", "0">>

s_abc == <<"a", "b", "c">>

s_n3x == <<"3", "x">>

s_m2 == <<"-", "2">>

(* ------------------------------------------------------------------ *)
(* Query engine: GET /Patient                                           *)
(* ------------------------------------------------------------------ *)
\* `${given.join(" ")} ${family}`.toLowerCase()
fullName(patient) ==
  toLowerCase(join(patient.given, <<" ">>) \o <<" ">> \o patient.family)

\* getAge of the "Age" sort case
getAge(birthDate, today) ==
  IF birthDate = <<>> THEN 0
  ELSE LET dob == localFields(newDate(birthDate), today.utcOffset)
       IN  IF ~dob.valid THEN 0
           ELSE LET age == today.y - dob.y
                    m   == today.m - dob.m
                IN  Max(0, IF m < 0 \/ (m = 0 /\ today.d < dob.d) THEN age - 1 ELSE age)

\* compareFn that compares in ascending order whatever _order is
compareFnAscendingOnly(a, b, sortParam, orderParam, today) ==
  IF sortParam = s_Name THEN localeCompare(fullName(a), fullName(b))
  ELSE IF sortParam = s_MRN
  THEN localeCompare(toLowerCase(a.identifier), toLowerCase(b.identifier))
  ELSE IF sortParam = s_Age
  THEN getAge(a.birthDate, today) - getAge(b.birthDate, today)
  ELSE 0

\* compareFn whose default case compares by name
compareFnDefaultByName(a, b, sortParam, orderParam, today) ==
  IF sortParam = s_MRN
  THEN IF orderParam = s_asc
       THEN localeCompare(toLowerCase(a.identifier), toLowerCase(b.identifier))
       ELSE localeCompare(toLowerCase(b.identifier), toLowerCase(a.identifier))
  ELSE IF sortParam = s_Age
  THEN IF orderParam = s_asc
       THEN getAge(a.birthDate, today) - getAge(b.birthDate, today)
       ELSE getAge(b.birthDate, today) - getAge(a.birthDate, today)
  ELSE IF orderParam = s_asc THEN localeCompare(fullName(a), fullName(b))
                             ELSE localeCompare(fullName(b), fullName(a))

\* the comparator handed to Array.prototype.sort
compareFn(a, b, sortParam, orderParam, today) ==
  IF sortParam = s_Name
  THEN IF orderParam = s_asc THEN localeCompare(fullName(a), fullName(b))
                             ELSE localeCompare(fullName(b), fullName(a))
  ELSE IF sortParam = s_MRN
  THEN IF orderParam = s_asc
       THEN localeCompare(toLowerCase(a.identifier), toLowerCase(b.identifier))
       ELSE localeCompare(toLowerCase(b.identifier), toLowerCase(a.identifier))
  ELSE IF sortParam = s_Age
  THEN IF orderParam = s_asc
       THEN getAge(a.birthDate, today) - getAge(b.birthDate, today)
       ELSE getAge(b.birthDate, today) - getAge(a.birthDate, today)
  ELSE 0

\* Array.prototype.sort is stable: an element goes before the first element
\* of the sorted prefix that the comparator puts strictly after it
RECURSIVE insertSorted(_, _, _, _, _)
insertSorted(x, sorted, sortParam, orderParam, today) ==
  IF sorted = <<>> THEN <<x>>
  ELSE IF compareFn(x, Head(sorted), sortParam, orderParam, today) < 0
  THEN <<x>> \o sorted
  ELSE <<Head(sorted)>> \o insertSorted(x, Tail(sorted), sortParam, orderParam, today)

RECURSIVE arraySort(_, _, _, _)
arraySort(arr, sortParam, orderParam, today) ==
  IF arr = <<>> THEN <<>>
  ELSE insertSorted(arr[Len(arr)],
                    arraySort(SubSeq(arr, 1, Len(arr) - 1), sortParam, orderParam, today),
                    sortParam, orderParam, today)

\* searchParams.get(key) || fallback
orDefault(value, fallback) == IF value = <<>> THEN fallback ELSE value

\* searchFilter with the token compared as typed (toLowerCase forgotten)
searchFilterCaseSensitive(records, search) ==
  IF search # <<>>
  THEN SelectSeq(records, LAMBDA patient :
         \/ includes(fullName(patient), search)
         \/ includes(toLowerCase(patient.identifier), search))
  ELSE records

searchFilter(records, search) ==
  IF search # <<>>
  THEN LET searchLower == toLowerCase(search)
       IN  SelectSeq(records, LAMBDA patient :
             \/ includes(fullName(patient), searchLower)
             \/ includes(toLowerCase(patient.identifier), searchLower))
  ELSE records

genderFilter(records, gender) ==
  IF gender # <<>>
  THEN SelectSeq(records, LAMBDA patient : patient.gender = toLowerCase(gender))
  ELSE records

activeFilter(records, active) ==
  IF active # <<>>
  THEN LET isActive == (toLowerCase(active) = s_true)
       IN  SelectSeq(records, LAMBDA patient : patient.active = isActive)
  ELSE records

sortStep(records, sortParam, orderParam, today) ==
  IF sortParam # <<>> THEN arraySort(records, sortParam, orderParam, today) ELSE records

\* filterPatients with the active filter applied to the whole store
\* instead of the records filtered so far
filterPatientsFromStore(records, search, gender, active) ==
  IF active # <<>> THEN activeFilter(records, active)
  ELSE genderFilter(searchFilter(records, search), gender)

\* the three filters, each applied to the result of the one before
filterPatients(records, search, gender, active) ==
  activeFilter(genderFilter(searchFilter(records, search), gender), active)

\* paginate that returns everything from the offset on
paginateFromOffset(records, count, offset) == slice(records, offset, Num(Len(records)))

\* paginate with the count taken as the end index
paginateEndIsCount(records, count, offset) == slice(records, offset, count)

paginate(records, count, offset) == slice(records, offset, plus(offset, count))

\* bundleOf that marks the entries after the first as included, not matched
bundleOfIncludeMode(total, paginatedPatients) ==
  [status |-> 200,
   resourceType |-> "Bundle",
   type |-> "searchset",
   total |-> total,
   entry |-> [i \in 1..Len(paginatedPatients) |->
                [resource |-> paginatedPatients[i],
                 search |-> [mode |-> IF i = 1 THEN "match" ELSE "include"]]]]

\* the FHIR Bundle of the response and its status
bundleOf(total, paginatedPatients) ==
  [status |-> 200,
   resourceType |-> "Bundle",
   type |-> "searchset",
   total |-> total,
   entry |-> [i \in 1..Len(paginatedPatients) |->
                [resource |-> paginatedPatients[i], search |-> [mode |-> "match"]]]]

\* the handler: q holds the raw query-string values, <<>> for an absent or
\* empty parameter
GET(records, q, today) ==
  LET search   == orDefault(q.search, <<>>)
      gender   == orDefault(q.gender, <<>>)
      active   == orDefault(q.active, <<>>)
      count    == parseInt(orDefault(q.count, s_n10))
      offset   == parseInt(orDefault(q.offset, s_n0))
      sortP    == orDefault(q.sort, <<>>)
      orderP   == orDefault(q.order, s_asc)
      filteredPatients ==
        sortStep(filterPatients(records, search, gender, active), sortP, orderP, today)
      total    == Len(filteredPatients)
      paginatedPatients == paginate(filteredPatients, count, offset)
  IN  bundleOf(total, paginatedPatients)

\* storeAfterGET that sorts the dataset itself when no filter made a copy
storeAfterGETSortInPlace(records, q, today) ==
  IF q.search = <<>> /\ q.gender = <<>> /\ q.active = <<>> /\ q.sort # <<>>
  THEN sortStep(records, q.sort, orDefault(q.order, s_asc), today)
  ELSE records

\* the dataset after the handler ran: filter returns a new array and sort
\* runs on a spread copy, so the module-level array is never written
storeAfterGET(records, q, today) == records

(* ------------------------------------------------------------------ *)
(* Client accessor: FHIRService                                         *)
(* ------------------------------------------------------------------ *)
\* Number.prototype.toString for an integer
RECURSIVE digitsOf(_)
digitsOf(n) ==
  IF n < 10 THEN <<HexDigits[n + 1]>>
  ELSE digitsOf(n \div 10) \o <<HexDigits[(n % 10) + 1]>>

numberToString(n) == IF n < 0 THEN <<"-">> \o digitsOf(0 - n) ELSE digitsOf(n)

\* the values undefined and null, distinct from every string (a string is a
\* sequence of one-character strings, '' being <<>>)
undefined == <<"undefined">>

null == <<"null">>

\* JavaScript truthiness of an optional string
truthyString(v) == v \notin {undefined, null, <<>>}

\* v || undefined
orUndefined(v) == IF truthyString(v) THEN v ELSE undefined

\* searchPatients: the params object handed to makeRequest, as the list of
\* its entries in insertion order.  _search and gender are copied when
\* truthy, active when not undefined; the optional numbers _count and
\* _offset are <<>> when undefined and <<n>> otherwise and are copied when
\* not undefined.  _sort and _order are not copied.
searchPatientsParams(sp) ==
  (IF truthyString(sp.search) THEN << <<"_search", sp.search>> >> ELSE <<>>) \o
  (IF truthyString(sp.gender) THEN << <<"gender", sp.gender>> >> ELSE <<>>) \o
  (IF sp.active # undefined THEN << <<"active", sp.active>> >> ELSE <<>>) \o
  (IF sp.count # <<>> THEN << <<"_count", numberToString(sp.count[1])>> >> ELSE <<>>) \o
  (IF sp.offset # <<>> THEN << <<"_offset", numberToString(sp.offset[1])>> >> ELSE <<>>)

\* makeRequestQuery that drops undefined and null but appends an empty string
makeRequestQueryKeepsEmpty(params) ==
  SelectSeq(params, LAMBDA kv : kv[2] # undefined /\ kv[2] # null)

\* makeRequest: the query string of the URL, one pair per appended key
makeRequestQuery(params) ==
  SelectSeq(params, LAMBDA kv : kv[2] # undefined /\ kv[2] # null /\ kv[2] # <<>>)

searchPatients(sp) == makeRequestQuery(searchPatientsParams(sp))

\* URLSearchParams.get: the first value of the key, <<>> when absent
searchParamsGet(query, key) ==
  IF \E i \in 1..Len(query) : query[i][1] = key
  THEN query[CHOOSE i \in 1..Len(query) :
               query[i][1] = key /\ \A j \in 1..(i - 1) : query[j][1] # key][2]
  ELSE <<>>

\* the raw parameters the handler reads from a URL
urlParams(query) ==
  [search |-> searchParamsGet(query, "_search"),
   gender |-> searchParamsGet(query, "gender"),
   active |-> searchParamsGet(query, "active"),
   count  |-> searchParamsGet(query, "_count"),
   offset |-> searchParamsGet(query, "_offset"),
   sort   |-> searchParamsGet(query, "_sort"),
   order  |-> searchParamsGet(query, "_order")]

\* errorMessage that reports the status line whatever the body is
errorMessageStatusOnly(response) ==
  <<"HTTP ", ToString(response.status), ": ", response.statusText>>

\* makeRequest on a non-success response: the message of the raised Error,
\* as a list of text pieces.  body.decodable is FALSE when response.json()
\* rejects (errorData = null).
errorMessage(response) ==
  IF response.body.decodable /\ response.body.resourceType = "OperationOutcome"
  THEN join([i \in 1..Len(response.body.issue) |->
               IF response.body.issue[i].diagnostics # ""
               THEN <<response.body.issue[i].diagnostics>>
               ELSE <<response.body.issue[i].severity, ": ", response.body.issue[i].code>>],
            <<", ">>)
  ELSE <<"HTTP ", ToString(response.status), ": ", response.statusText>>

\* the 500 response of the mock endpoint
internalError ==
  [status |-> 500, statusText |-> "Internal Server Error",
   body |-> [decodable |-> TRUE, resourceType |-> "OperationOutcome",
             issue |-> <<[severity |-> "error", code |-> "processing",
                          diagnostics |-> "Internal server error occurred while processing the request"]>>]]

\* an OperationOutcome of an external server that lists no issue
emptyOutcome ==
  [status |-> 400, statusText |-> "Bad Request",
   body |-> [decodable |-> TRUE, resourceType |-> "OperationOutcome", issue |-> <<>>]]

\* the non-success responses the controller is exercised with
FailureResponses == {internalError, emptyOutcome}

(* ------------------------------------------------------------------ *)
(* List controller: PatientList                                         *)
(* ------------------------------------------------------------------ *)
VARIABLES
  state,        \* PatientListState: patients (ids), loading, error, total, hasMore
  filters,      \* FilterState: search, gender, active
  currentPage,
  sort,         \* sortBy, order
  inflight,     \* fetchPatients calls awaiting their response, oldest first
  store,        \* the records of the server the client is configured for
  lastEvent,    \* the last handler that ran (history)
  loadMoreClick,\* the list at the last "load more" click (history)
  userActions,  \* number of user actions so far
  request,      \* a request sent to GET /Patient directly
  today,        \* the clock of the runtime: local date and UTC offset
  served,       \* whether the direct request was answered
  bundle,       \* the answer to the direct request
  directCall,   \* a direct call of FHIRService or FHIRUtils with its arguments
  result        \* what the direct call returned or threw

vars == <<state, filters, currentPage, sort, inflight, store, lastEvent,
          loadMoreClick, userActions, request, today, served, bundle, directCall, result>>

controllerVars == <<state, filters, currentPage, sort, inflight, store, lastEvent,
                    loadMoreClick, userActions>>

endpointVars == <<request, today, served, bundle>>

clientVars == <<directCall, result>>

ITEMS_PER_PAGE == 10

MaxUserActions == 2

MaxInflight == 2

MaxPage == 1

\* values of the Sort enum (the buttons of the sort bar)
SortValues == {s_Name, s_MRN, s_Age}

\* texts typed into the search box
SearchTexts == {<<>>, s_son}

\* options of the gender and status selects the user picks from
GenderOptions == {<<>>, s_female}

ActiveOptions == {<<>>, s_true}

NoError == [isNull |-> TRUE, message |-> <<>>]

ErrorOf(message) == [isNull |-> FALSE, message |-> message]

\* JavaScript truthiness of state.error: neither null nor the empty string
truthy(error) == ~error.isNull /\ \E i \in 1..Len(error.message) : error.message[i] # ""

initialState ==
  [patients |-> <<>>, loading |-> TRUE, error |-> NoError, total |-> 0, hasMore |-> TRUE]

\* the searchParams memo
searchParams(f, page, srt) ==
  [search |-> orUndefined(f.search),
   gender |-> orUndefined(f.gender),
   active |-> orUndefined(f.active),
   count  |-> <<ITEMS_PER_PAGE>>,
   offset |-> <<page * ITEMS_PER_PAGE>>,
   sort   |-> orUndefined(srt.sortBy),
   order  |-> srt.order]

\* fetchPatients up to the await: the first setState
fetchStart(st, reset) ==
  [st EXCEPT !.loading = TRUE,
             !.error = NoError,
             !.patients = IF reset THEN <<>> ELSE @,
             !.total = IF reset THEN 0 ELSE @]

\* fetchPatients: the call awaiting its response, with the reset flag of
\* its closure and the query searchPatients sends
fetchCall(reset, cause, f, page, srt) ==
  [reset |-> reset,
   cause |-> cause,
   query |-> searchPatients(IF reset THEN [searchParams(f, page, srt) EXCEPT !.offset = <<0>>]
                                     ELSE searchParams(f, page, srt))]

\* fetchSuccess with hasMore decided from the new page alone
fetchSuccessNewPageOnly(prev, reset, newPatients, total) ==
  [prev EXCEPT !.patients = IF reset THEN newPatients ELSE prev.patients \o newPatients,
               !.total = total,
               !.hasMore = Len(newPatients) < total,
               !.loading = FALSE]

\* fetchPatients after a resolved await: the second setState
fetchSuccess(prev, reset, newPatients, total) ==
  [prev EXCEPT !.patients = IF reset THEN newPatients ELSE prev.patients \o newPatients,
               !.total = total,
               !.hasMore = (IF reset THEN 0 ELSE Len(prev.patients)) + Len(newPatients) < total,
               !.loading = FALSE]

\* fetchPatients after a rejected await: the catch block
fetchFailure(prev, message) ==
  [prev EXCEPT !.loading = FALSE, !.error = ErrorOf(message)]

\* runEffects with the first effect declared without a dependency array: it
\* runs after every render
runEffectsEveryRender(st, f, page, srt, depsChanged, pageChanged, cause1, cause2) ==
  LET st1    == fetchStart(st, TRUE)
      calls1 == <<fetchCall(TRUE, cause1, f, page, srt)>>
      second == pageChanged /\ page > 0
      st2    == IF second THEN fetchStart(st1, FALSE) ELSE st1
      calls2 == IF second THEN <<fetchCall(FALSE, cause2, f, page, srt)>> ELSE <<>>
  IN  [state |-> st2, calls |-> calls1 \o calls2]

\* the two effects, run in order after a render in which the dependencies
\* changed: [filters, currentPage, sort] for the first, [currentPage] for
\* the second.  Gives the state and the calls issued.
runEffects(st, f, page, srt, depsChanged, pageChanged, cause1, cause2) ==
  LET st1    == IF depsChanged THEN fetchStart(st, TRUE) ELSE st
      calls1 == IF depsChanged THEN <<fetchCall(TRUE, cause1, f, page, srt)>> ELSE <<>>
      second == pageChanged /\ page > 0
      st2    == IF second THEN fetchStart(st1, FALSE) ELSE st1
      calls2 == IF second THEN <<fetchCall(FALSE, cause2, f, page, srt)>> ELSE <<>>
  IN  [state |-> st2, calls |-> calls1 \o calls2]

\* what the component renders
view(st) ==
  IF truthy(st.error) /\ Len(st.patients) = 0
  THEN {"fullPageError", "tryAgain"}
  ELSE {"controls"}
       \cup (IF st.loading THEN {"spinner"} ELSE {})
       \cup (IF ~st.loading /\ st.hasMore THEN {"loadMoreButton"} ELSE {})
       \cup (IF ~st.loading /\ Len(st.patients) = 0 /\ ~truthy(st.error)
             THEN {"noPatientsFound"} ELSE {})
       \cup (IF truthy(st.error) /\ Len(st.patients) > 0 THEN {"inlineError", "retry"} ELSE {})

event(type, cause, reset, entries, message) ==
  [type |-> type, cause |-> cause, reset |-> reset, entries |-> entries, message |-> message]

noClick == [pending |-> FALSE, before |-> <<>>, page |-> 0, clean |-> FALSE, failed |-> FALSE]

canAct(n) == userActions < MaxUserActions /\ Len(inflight) + n <= MaxInflight

\* a change of the filters object: render, then the first effect
filtersChanged(newFilters, type) ==
  LET r == runEffects(state, newFilters, currentPage, sort, TRUE, FALSE, "filters", "none")
  IN  /\ "controls" \in view(state)
      /\ canAct(1)
      /\ filters' = newFilters
      /\ state' = r.state
      /\ inflight' = inflight \o r.calls
      /\ lastEvent' = event(type, "filters", TRUE, <<>>, <<>>)
      /\ loadMoreClick' = noClick
      /\ userActions' = userActions + 1
      /\ UNCHANGED <<currentPage, sort, store, endpointVars, clientVars>>

handleSearchChange ==
  \E value \in SearchTexts :
    /\ value # filters.search
    /\ filtersChanged([filters EXCEPT !.search = value], "search")

handleFilterChange ==
  \/ \E value \in GenderOptions :
       /\ value # filters.gender
       /\ filtersChanged([filters EXCEPT !.gender = value], "filter")
  \/ \E value \in ActiveOptions :
       /\ value # filters.active
       /\ filtersChanged([filters EXCEPT !.active = value], "filter")

clearFilters ==
  filtersChanged([search |-> <<>>, gender |-> <<>>, active |-> <<>>], "clear")

onSort ==
  \E sortBy \in SortValues :
    LET newSort == [sortBy |-> sortBy, order |-> IF sort.order = s_asc THEN s_desc ELSE s_asc]
        r == runEffects(state, filters, 0, newSort, TRUE, currentPage # 0, "sort", "none")
    IN  /\ "controls" \in view(state)
        /\ canAct(1)
        /\ sort' = newSort
        /\ currentPage' = 0
        /\ state' = r.state
        /\ inflight' = inflight \o r.calls
        /\ lastEvent' = event("sort", "sort", TRUE, <<>>, <<>>)
        /\ loadMoreClick' = noClick
        /\ userActions' = userActions + 1
        /\ UNCHANGED <<filters, store, endpointVars, clientVars>>

loadMore ==
  LET r == runEffects(state, filters, currentPage + 1, sort, TRUE, TRUE,
                      "loadMoreReset", "loadMore")
  IN  /\ "loadMoreButton" \in view(state)
      /\ ~state.loading /\ state.hasMore
      /\ canAct(2)
      /\ currentPage < MaxPage
      /\ currentPage' = currentPage + 1
      /\ state' = r.state
      /\ inflight' = inflight \o r.calls
      /\ lastEvent' = event("loadMore", "loadMore", FALSE, <<>>, <<>>)
      /\ loadMoreClick' = [pending |-> TRUE, before |-> state.patients,
                           page |-> currentPage + 1,
                           clean |-> /\ inflight = <<>>
                                     /\ state.error.isNull
                                     /\ Len(state.patients) = (currentPage + 1) * ITEMS_PER_PAGE,
                           failed |-> FALSE]
      /\ userActions' = userActions + 1
      /\ UNCHANGED <<filters, sort, store, endpointVars, clientVars>>

retry ==
  /\ view(state) \cap {"tryAgain", "retry"} # {}
  /\ canAct(1)
  /\ state' = fetchStart(state, TRUE)
  /\ inflight' = Append(inflight, fetchCall(TRUE, "retry", filters, currentPage, sort))
  /\ lastEvent' = event("retry", "retry", TRUE, <<>>, <<>>)
  /\ loadMoreClick' = noClick
  /\ userActions' = userActions + 1
  /\ UNCHANGED <<filters, currentPage, sort, store, endpointVars, clientVars>>

removeAt(seq, i) == SubSeq(seq, 1, i - 1) \o SubSeq(seq, i + 1, Len(seq))

\* bundle.entry?.map((entry) => entry.resource), a resource being named by
\* its id
resourcesOf(b) == [i \in 1..Len(b.entry) |-> b.entry[i].resource.id]

\* responseOk with a request-generation fence: only the response to the
\* newest call is applied, the response to an older call is dropped
responseOkNewestOnly ==
  \E i \in 1..Len(inflight) :
    \E b \in {GET(store, urlParams(inflight[i].query), today)} :
      \E newPatients \in {resourcesOf(b)} :
        LET call    == inflight[i]
            newest  == i = Len(inflight)
            st1     == IF newest THEN fetchSuccess(state, call.reset, newPatients, b.total)
                       ELSE state
            newPage == IF call.reset /\ newest THEN 0 ELSE currentPage
            r       == runEffects(st1, filters, newPage, sort,
                                  newPage # currentPage, newPage # currentPage,
                                  "pageReset", "none")
        IN  /\ currentPage' = newPage
            /\ state' = r.state
            /\ inflight' = removeAt(inflight, i) \o r.calls
            /\ lastEvent' = event("success", call.cause, call.reset, newPatients, <<>>)
            /\ store' = storeAfterGET(store, urlParams(call.query), today)
            /\ UNCHANGED <<filters, sort, loadMoreClick, userActions, endpointVars, clientVars>>

\* a response arrives with a success status: the rest of fetchPatients,
\* then the effects when setCurrentPage(0) changed the page
responseOk ==
  \E i \in 1..Len(inflight) :
    \E b \in {GET(store, urlParams(inflight[i].query), today)} :
      \E newPatients \in {resourcesOf(b)} :
        LET call    == inflight[i]
            st1     == fetchSuccess(state, call.reset, newPatients, b.total)
            newPage == IF call.reset THEN 0 ELSE currentPage
            r       == runEffects(st1, filters, newPage, sort,
                                  newPage # currentPage, newPage # currentPage,
                                  "pageReset", "none")
        IN  /\ currentPage' = newPage
            /\ state' = r.state
            /\ inflight' = removeAt(inflight, i) \o r.calls
            /\ lastEvent' = event("success", call.cause, call.reset, newPatients, <<>>)
            /\ store' = storeAfterGET(store, urlParams(call.query), today)
            /\ UNCHANGED <<filters, sort, loadMoreClick, userActions, endpointVars, clientVars>>

\* a response arrives with a non-success status: makeRequest throws
responseError ==
  \E i \in 1..Len(inflight) : \E response \in FailureResponses :
    LET call == inflight[i]
    IN  /\ state' = fetchFailure(state, errorMessage(response))
        /\ inflight' = removeAt(inflight, i)
        /\ lastEvent' = event("failure", call.cause, call.reset, <<>>, errorMessage(response))
        /\ loadMoreClick' = [loadMoreClick EXCEPT !.failed = TRUE]
        /\ UNCHANGED <<filters, currentPage, sort, store, userActions, endpointVars, clientVars>>

noCall == [fn |-> "none"]

noResult ==
  [done |-> FALSE, url |-> <<>>, query |-> <<>>, threw |-> FALSE, message |-> <<>>,
   body |-> [decodable |-> FALSE], age |-> [isNull |-> TRUE, nan |-> FALSE, v |-> 0],
   text |-> <<>>]

noRequest ==
  [search |-> <<>>, gender |-> <<>>, active |-> <<>>, count |-> <<>>, offset |-> <<>>,
   sort |-> <<>>, order |-> <<>>]

noBundle ==
  [status |-> 0, resourceType |-> "", type |-> "", total |-> 0, entry |-> <<>>]

\* the clock of the runtime: the local calendar date and the offset of its
\* time zone from UTC in hours
Todays ==
  {[y |-> 2024, m |-> 1, d |-> 15, utcOffset |-> 0],
   [y |-> 2024, m |-> 9, d |-> 18, utcOffset |-> 0],
   [y |-> 2024, m |-> 9, d |-> 17, utcOffset |-> -5]}

Backends == {mockPatients, externalPatients}

initialFilters == [search |-> <<>>, gender |-> <<>>, active |-> <<>>]

initialSort == [sortBy |-> s_Name, order |-> s_asc]

\* the component after its first render and its mount effects
Init ==
  /\ state = fetchStart(initialState, TRUE)
  /\ filters = initialFilters
  /\ currentPage = 0
  /\ sort = initialSort
  /\ inflight = <<fetchCall(TRUE, "mount", initialFilters, 0, initialSort)>>
  /\ store \in Backends
  /\ lastEvent = event("mount", "mount", TRUE, <<>>, <<>>)
  /\ loadMoreClick = noClick
  /\ userActions = 0
  /\ request = noRequest
  /\ today = [y |-> 2024, m |-> 1, d |-> 15, utcOffset |-> 0]
  /\ served = FALSE
  /\ bundle = noBundle
  /\ directCall = noCall
  /\ result = noResult

Next ==
  \/ handleSearchChange
  \/ handleFilterChange
  \/ clearFilters
  \/ onSort
  \/ loadMore
  \/ retry
  \/ responseOk
  \/ responseError

Spec == Init /\ [][Next]_vars

\* a response arrives: the await of fetchPatients settles
awaitSettles == responseError \/ responseOk

\* every issued request eventually completes, with success or failure: the
\* promise awaited by fetchPatients settles
SpecFair == Spec /\ WF_vars(awaitSettles)

(* ------------------------------------------------------------------ *)
(* The endpoint on its own: requests sent to GET /Patient directly      *)
(* ------------------------------------------------------------------ *)
SearchParams == {<<>>, s_John, s_john, s_JOHN, s_Smi, s_MRN002, s_d_s, s_nonexistent}

GenderParams == {<<>>, s_male, s_female, s_MALE}

ActiveParams == {<<>>, s_true, s_false, s_TRUE, s_yes}

CountParams == {<<>>, s_n0, s_n2, s_n10, s_abc}

OffsetParams == {<<>>, s_n1, s_n5, s_abc}

SortParams == {<<>>, s_Name, s_MRN, s_Age, s_name}

OrderParams == {<<>>, s_desc}

Requests ==
  [search : SearchParams, gender : GenderParams, active : ActiveParams,
   count : CountParams, offset : OffsetParams, sort : SortParams, order : OrderParams]

InitGET ==
  /\ state = fetchStart(initialState, TRUE)
  /\ filters = initialFilters
  /\ currentPage = 0
  /\ sort = initialSort
  /\ inflight = <<fetchCall(TRUE, "mount", initialFilters, 0, initialSort)>>
  /\ store = mockPatients
  /\ lastEvent = event("mount", "mount", TRUE, <<>>, <<>>)
  /\ loadMoreClick = noClick
  /\ userActions = 0
  /\ request \in Requests
  /\ today \in IF request.sort = s_Age THEN Todays
               ELSE {[y |-> 2024, m |-> 1, d |-> 15, utcOffset |-> 0]}
  /\ served = FALSE
  /\ bundle = noBundle
  /\ directCall = noCall
  /\ result = noResult

\* the handler answers the request
HandleGET ==
  /\ ~served
  /\ served' = TRUE
  /\ \E b \in {GET(store, request, today)} : bundle' = b
  /\ store' = storeAfterGET(store, request, today)
  /\ UNCHANGED <<state, filters, currentPage, sort, inflight, lastEvent, loadMoreClick,
                 userActions, request, today, clientVars>>

NextGET == HandleGET

SpecGET == InitGET /\ [][NextGET]_vars

(* ------------------------------------------------------------------ *)
(* The endpoint answering one request after another                     *)
(* ------------------------------------------------------------------ *)
SequenceRequests ==
  [search : {<<>>}, gender : {<<>>, s_male}, active : {<<>>},
   count : {<<>>, s_n2}, offset : {<<>>},
   sort : {<<>>, s_Name, s_Age}, order : {<<>>, s_desc}]

InitSequence ==
  /\ state = fetchStart(initialState, TRUE)
  /\ filters = initialFilters
  /\ currentPage = 0
  /\ sort = initialSort
  /\ inflight = <<fetchCall(TRUE, "mount", initialFilters, 0, initialSort)>>
  /\ store = mockPatients
  /\ lastEvent = event("mount", "mount", TRUE, <<>>, <<>>)
  /\ loadMoreClick = noClick
  /\ userActions = 0
  /\ request \in SequenceRequests
  /\ today = [y |-> 2024, m |-> 1, d |-> 15, utcOffset |-> 0]
  /\ served = FALSE
  /\ bundle = noBundle
  /\ directCall = noCall
  /\ result = noResult

\* the next request arrives once the previous one was answered
nextRequest ==
  /\ served
  /\ \E r \in SequenceRequests : request' = r
  /\ served' = FALSE
  /\ UNCHANGED <<controllerVars, today, bundle, clientVars>>

NextSequence ==
  \/ HandleGET
  \/ nextRequest

SpecSequence == InitSequence /\ [][NextSequence]_vars

(* ------------------------------------------------------------------ *)
(* FHIRService and FHIRUtils called on their own                        *)
(* ------------------------------------------------------------------ *)
\* URLSearchParams serialisation of a value: a space is written "+"
formUrlEncode(value) ==
  [i \in 1..Len(value) |-> IF value[i] = " " THEN "+" ELSE value[i]]

\* url.toString(): window.location.origin, FHIR_BASE_URL and the endpoint,
\* followed by "?" and the key=value pairs joined by "&" when there is one
urlToString(endpoint, query) ==
  <<"http://localhost:3000", "/api/fhir", endpoint>> \o
  (IF query = <<>> THEN <<>>
   ELSE <<"?">> \o join([i \in 1..Len(query) |->
                          <<query[i][1], "=">> \o formUrlEncode(query[i][2])],
                       <<"&">>))

\* response.ok
isOk(response) == response.status \in 200..299

\* makeRequest: the URL fetched and, from the response, the body returned
\* or the Error thrown (response.json() rejects on an undecodable body)
makeRequest(endpoint, params, response) ==
  [noResult EXCEPT
     !.done = TRUE,
     !.url = urlToString(endpoint, makeRequestQuery(params)),
     !.query = makeRequestQuery(params),
     !.threw = ~isOk(response) \/ ~response.body.decodable,
     !.message = IF ~isOk(response) THEN errorMessage(response)
                 ELSE IF ~response.body.decodable THEN <<"SyntaxError">>
                 ELSE <<>>,
     !.body = IF isOk(response) /\ response.body.decodable THEN response.body
              ELSE [decodable |-> FALSE]]

\* FHIRService.searchPatients called with sp, the server answering response
searchPatientsReturn(sp, response) ==
  makeRequest("/Patient", searchPatientsParams(sp), response)

s_NA == <<"N", "/", "A">>

s_InvalidDate == <<"I", "n", "v", "a", "l", "i", "d", " ", "D", "a", "t", "e">>

s_invalid_date == <<"i", "n", "v", "a", "l", "i", "d", "-", "d", "a", "t", "e">>

MonthShort ==
  <<<<"J", "a", "n">>,
    <<"F", "e", "b">>,
    <<"M", "a", "r">>,
    <<"A", "p", "r">>,
    <<"M", "a", "y">>,
    <<"J", "u", "n">>,
    <<"J", "u", "l">>,
    <<"A", "u", "g">>,
    <<"S", "e", "p">>,
    <<"O", "c", "t">>,
    <<"N", "o", "v">>,
    <<"D", "e", "c">>>>

\* FHIRUtils.formatBirthDate: toLocaleDateString("en-US", {year: "numeric",
\* month: "short", day: "numeric"}) gives "Invalid Date" for an invalid
\* Date and does not throw
formatBirthDate(birthDate, now) ==
  IF ~truthyString(birthDate) THEN s_NA
  ELSE LET date == localFields(newDate(birthDate), now.utcOffset)
       IN  IF ~date.valid THEN s_InvalidDate
           ELSE MonthShort[date.m] \o <<" ">> \o numberToString(date.d) \o
                <<",", " ">> \o numberToString(date.y)

\* FHIRUtils.calculateAge: null, or a number; the getters of an invalid
\* Date give NaN, every comparison with NaN is false and nothing throws
calculateAge(birthDate, now) ==
  IF ~truthyString(birthDate) THEN [isNull |-> TRUE, nan |-> FALSE, v |-> 0]
  ELSE LET birth == localFields(newDate(birthDate), now.utcOffset)
       IN  IF ~birth.valid THEN [isNull |-> FALSE, nan |-> TRUE, v |-> 0]
           ELSE LET age       == now.y - birth.y
                    monthDiff == now.m - birth.m
                IN  [isNull |-> FALSE, nan |-> FALSE,
                     v |-> IF monthDiff < 0 \/ (monthDiff = 0 /\ now.d < birth.d)
                           THEN age - 1 ELSE age]

\* getPatientAge of utils/patient.ts, given the birthDate of the patient: 0
\* for a missing or invalid date, never negative
getPatientAge(birthDate, now) ==
  IF ~truthyString(birthDate) THEN 0
  ELSE LET birth == localFields(newDate(birthDate), now.utcOffset)
       IN  IF ~birth.valid THEN 0
           ELSE LET age       == now.y - birth.y
                    monthDiff == now.m - birth.m
                IN  Max(0, IF monthDiff < 0 \/ (monthDiff = 0 /\ now.d < birth.d)
                           THEN age - 1 ELSE age)

\* a success response carrying a bundle of one entry
okBundle ==
  [status |-> 200, statusText |-> "OK",
   body |-> [decodable |-> TRUE, resourceType |-> "Bundle", type |-> "searchset",
             total |-> 1, entry |-> <<[resource |-> [resourceType |-> "Patient", id |-> "1"]]>>]]

\* an OperationOutcome with two issues, the second without diagnostics
twoIssues ==
  [status |-> 400, statusText |-> "Bad Request",
   body |-> [decodable |-> TRUE, resourceType |-> "OperationOutcome",
             issue |-> <<[severity |-> "error", code |-> "processing",
                          diagnostics |-> "Invalid search parameter"],
                         [severity |-> "warning", code |-> "invalid",
                          diagnostics |-> ""]>>]]

\* a non-success response whose body is the JSON object {}
emptyObject ==
  [status |-> 500, statusText |-> "Internal Server Error",
   body |-> [decodable |-> TRUE, resourceType |-> ""]]

\* a non-success response whose body is not JSON
notJson ==
  [status |-> 502, statusText |-> "Bad Gateway", body |-> [decodable |-> FALSE]]

\* a success response whose body is not JSON
okNotJson ==
  [status |-> 200, statusText |-> "OK", body |-> [decodable |-> FALSE]]

Responses ==
  {okBundle, internalError, emptyOutcome, twoIssues, emptyObject, notJson, okNotJson}

\* arguments of searchPatients: each optional string undefined, '' or a
\* text (active also null), each optional number undefined or a number
SearchPatientsArgs ==
  [search : {undefined, <<>>, s_John, s_d_s},
   gender : {undefined, <<>>, s_male},
   active : {undefined, null, <<>>, s_true},
   count  : {<<>>, <<0>>, <<10>>},
   offset : {<<>>, <<0>>, <<20>>},
   sort   : {undefined, s_Name},
   order  : {s_asc}]

noArgs ==
  [search |-> undefined, gender |-> undefined, active |-> undefined,
   count |-> <<>>, offset |-> <<>>, sort |-> undefined, order |-> s_asc]

BirthDates ==
  {undefined, <<>>, s_invalid_date,
   <<"1", "9", "8", "5", "-", "0", "3", "-", "1", "5">>,
   <<"1", "9", "8", "5", "-", "0", "1", "-", "0", "1">>,
   <<"1", "9", "8", "5", "-", "0", "1", "-", "1", "5">>,
   <<"1", "9", "8", "5", "-", "0", "1", "-", "1", "6">>,
   <<"2", "0", "0", "0", "-", "0", "2", "-", "2", "9">>,
   <<"1", "9", "9", "2", "-", "0", "3", "-", "0", "1">>,
   <<"2", "0", "3", "0", "-", "0", "6", "-", "0", "1">>}

ClientTodays ==
  {[y |-> 2024, m |-> 1, d |-> 15, utcOffset |-> 0],
   [y |-> 2024, m |-> 1, d |-> 15, utcOffset |-> -5],
   [y |-> 2024, m |-> 3, d |-> 1, utcOffset |-> 0],
   [y |-> 2024, m |-> 2, d |-> 29, utcOffset |-> 1],
   [y |-> 2023, m |-> 12, d |-> 31, utcOffset |-> 0]}

DirectCalls ==
  {[fn |-> "searchPatients", params |-> sp, response |-> r, birthDate |-> undefined] :
     sp \in SearchPatientsArgs, r \in Responses}
  \cup
  {[fn |-> f, params |-> noArgs, response |-> okBundle, birthDate |-> b] :
     f \in {"calculateAge", "formatBirthDate", "getPatientAge"}, b \in BirthDates}

InitClient ==
  /\ state = fetchStart(initialState, TRUE)
  /\ filters = initialFilters
  /\ currentPage = 0
  /\ sort = initialSort
  /\ inflight = <<fetchCall(TRUE, "mount", initialFilters, 0, initialSort)>>
  /\ store = mockPatients
  /\ lastEvent = event("mount", "mount", TRUE, <<>>, <<>>)
  /\ loadMoreClick = noClick
  /\ userActions = 0
  /\ request = noRequest
  /\ served = FALSE
  /\ bundle = noBundle
  /\ directCall \in DirectCalls
  /\ today \in IF directCall.fn = "searchPatients"
               THEN {[y |-> 2024, m |-> 1, d |-> 15, utcOffset |-> 0]}
               ELSE ClientTodays
  /\ result = noResult

callSearchPatients ==
  /\ directCall.fn = "searchPatients" /\ ~result.done
  /\ result' = searchPatientsReturn(directCall.params, directCall.response)
  /\ UNCHANGED <<controllerVars, endpointVars, directCall>>

callCalculateAge ==
  /\ directCall.fn = "calculateAge" /\ ~result.done
  /\ result' = [noResult EXCEPT !.done = TRUE,
                                !.age = calculateAge(directCall.birthDate, today)]
  /\ UNCHANGED <<controllerVars, endpointVars, directCall>>

callFormatBirthDate ==
  /\ directCall.fn = "formatBirthDate" /\ ~result.done
  /\ result' = [noResult EXCEPT !.done = TRUE,
                                !.text = formatBirthDate(directCall.birthDate, today)]
  /\ UNCHANGED <<controllerVars, endpointVars, directCall>>

callGetPatientAge ==
  /\ directCall.fn = "getPatientAge" /\ ~result.done
  /\ result' = [noResult EXCEPT
                  !.done = TRUE,
                  !.age = [isNull |-> FALSE, nan |-> FALSE,
                           v |-> getPatientAge(directCall.birthDate, today)]]
  /\ UNCHANGED <<controllerVars, endpointVars, directCall>>

NextClient ==
  \/ callSearchPatients
  \/ callCalculateAge
  \/ callFormatBirthDate
  \/ callGetPatientAge

SpecClient == InitClient /\ [][NextClient]_vars

(* ------------------------------------------------------------------ *)
(* Properties of the endpoint (SpecGET)                                 *)
(* ------------------------------------------------------------------ *)
\* t occurs in s at some position
isSubstring(t, s) ==
  \E i \in 0..(Len(s) - Len(t)) : \A j \in 1..Len(t) : s[i + j] = t[j]

\* "given names joined by spaces + ' ' + family name"
nameOf(p) == join(p.given, <<" ">>) \o <<" ">> \o p.family

searchMatches(p, t) ==
  \/ isSubstring(toLowerCase(t), toLowerCase(nameOf(p)))
  \/ isSubstring(toLowerCase(t), toLowerCase(p.identifier))

genderMatches(p, g) == toLowerCase(p.gender) = toLowerCase(g)

activeMatches(p, a) == p.active = (toLowerCase(a) = s_true)

entryIds(b) == [i \in 1..Len(b.entry) |-> b.entry[i].resource.id]

idSet(b) == {b.entry[i].resource.id : i \in 1..Len(b.entry)}

\* the request asks for the first page with the default or the standard size
firstPage == request.count \in {<<>>, s_n10} /\ request.offset = <<>>

C2_JohnMatchesOneRecord ==
  (served /\ toLowerCase(request.search) = s_john
          /\ request.gender = <<>> /\ request.active = <<>>) =>
    /\ bundle.total = 1
    /\ firstPage => idSet(bundle) = {"1"}

\* C3: the total is the number of records of the store that satisfy every
\* specified filter, whatever _sort, _order, _count and _offset are.
C3_TotalCountsAllFilters ==
  served =>
    bundle.total =
      Cardinality({k \in 1..Len(store) :
        /\ request.search # <<>> => searchMatches(store[k], request.search)
        /\ request.gender # <<>> => genderMatches(store[k], request.gender)
        /\ request.active # <<>> => activeMatches(store[k], request.active)})

\* C3 witness: gender and active given together, with a sort and a page
\* window, and both filters cut the result
C3_Witness ==
  /\ served
  /\ request.gender = s_male /\ request.active = s_true /\ request.search = <<>>
  /\ request.sort = s_Age /\ request.count = s_n2 /\ request.offset = s_n1
  /\ bundle.total = 2

\* a parameter that is absent or a plain decimal numeral
isNumeral(s) == s # <<>> /\ \A i \in 1..Len(s) : isDigit(s[i])

numeralOr(s, fallback) == IF s = <<>> THEN fallback ELSE parseInt(s).v

\* C4: for non-negative integer count and offset the entries are the records
\* at positions [offset, offset+count) of the filtered and sorted list, so
\* their number is min(count, total - offset), or 0 from offset >= total on;
\* without parameters total = 5 and 5 entries come back.
C4_PageIsWindowOfFiltered ==
  (served /\ (request.count = <<>> \/ isNumeral(request.count))
          /\ (request.offset = <<>> \/ isNumeral(request.offset))) =>
    LET count    == numeralOr(request.count, 10)
        offset   == numeralOr(request.offset, 0)
        filtered == sortStep(filterPatients(store, request.search, request.gender,
                                            request.active),
                             request.sort, orDefault(request.order, s_asc), today)
    IN  /\ bundle.status = 200
        /\ bundle.total = Len(filtered)
        /\ Len(bundle.entry) =
             (IF offset < bundle.total THEN Min(count, bundle.total - offset) ELSE 0)
        /\ \A i \in 1..Len(bundle.entry) : bundle.entry[i].resource = filtered[offset + i]
        /\ request = noRequest => (bundle.total = 5 /\ Len(bundle.entry) = 5)

\* C4 witness: _count=2&_offset=1 gave two entries starting at the second
\* record, total 5
C4_Witness ==
  /\ served
  /\ request = [noRequest EXCEPT !.count = s_n2, !.offset = s_n1]
  /\ bundle.total = 5
  /\ entryIds(bundle) = <<"2", "3">>

\* C5: a _count that is no number is served as _count=10 and an _offset
\* that is no number as _offset=0.
C5_MalformedNumbersDefault ==
  served =>
    /\ (request.count # <<>> /\ parseInt(request.count).nan) =>
         bundle = GET(store, [request EXCEPT !.count = s_n10], today)
    /\ (request.offset # <<>> /\ parseInt(request.offset).nan) =>
         bundle = GET(store, [request EXCEPT !.offset = s_n0], today)

\* a <= b in lexicographic order, characters in code-point order
RECURSIVE lexLeq(_, _)
lexLeq(a, b) ==
  IF a = <<>> THEN TRUE
  ELSE IF b = <<>> THEN FALSE
  ELSE IF a[1] = b[1] THEN lexLeq(Tail(a), Tail(b))
  ELSE collationRank(a[1]) < collationRank(b[1])

\* the age in whole years of a record born on birthDate, at the current date
wholeYears(birthDate, now) ==
  LET birth == newDate(birthDate)
  IN  (now.y - birth.y) - (IF now.m < birth.m \/ (now.m = birth.m /\ now.d < birth.d)
                           THEN 1 ELSE 0)

\* key(a) <= key(b) for the sort key named by sortParam
keyLeq(a, b, sortParam, now) ==
  IF sortParam = s_Name THEN lexLeq(toLowerCase(nameOf(a)), toLowerCase(nameOf(b)))
  ELSE IF sortParam = s_MRN THEN lexLeq(toLowerCase(a.identifier), toLowerCase(b.identifier))
  ELSE wholeYears(a.birthDate, now) <= wholeYears(b.birthDate, now)

\* C19: for _sort in {Name, MRN, Age} the list that is paginated is a
\* permutation of the filtered set, non-decreasing by the key when _order is
\* asc or absent and non-increasing when it is desc; Name and MRN keys are
\* lower-cased and compared lexicographically, the Age key is the age in
\* whole years.
C19_SortedByKey ==
  (served /\ request.sort \in {s_Name, s_MRN, s_Age} /\ firstPage) =>
    LET filtered == filterPatients(store, request.search, request.gender, request.active)
        n        == Len(bundle.entry)
    IN  /\ n = Len(filtered)
        /\ idSet(bundle) = {filtered[k].id : k \in 1..Len(filtered)}
        /\ \A i \in 1..(n - 1) :
             IF request.order = s_desc
             THEN keyLeq(bundle.entry[i + 1].resource, bundle.entry[i].resource,
                         request.sort, today)
             ELSE keyLeq(bundle.entry[i].resource, bundle.entry[i + 1].resource,
                         request.sort, today)

\* C19 witness: the five records sorted by name in descending order
C19_Witness ==
  /\ served
  /\ request = [noRequest EXCEPT !.sort = s_Name, !.order = s_desc]
  /\ entryIds(bundle) = <<"2", "5", "3", "1", "4">>

\* C20: for non-negative integer _count and _offset the bundle has at most
\* _count entries and its total is at least the number of entries.
C20_PageWithinCountAndTotal ==
  (served /\ (request.count = <<>> \/ isNumeral(request.count))
          /\ (request.offset = <<>> \/ isNumeral(request.offset))) =>
    /\ Len(bundle.entry) <= numeralOr(request.count, 10)
    /\ bundle.total >= Len(bundle.entry)

\* C20 witness: _count=2 cut a result of five down to two entries
C20_Witness ==
  /\ served
  /\ request.count = s_n2 /\ request.offset = <<>> /\ request.sort = s_MRN
  /\ bundle.total = 5
  /\ Len(bundle.entry) = 2

\* C21: every successful response is a Bundle of type "searchset" with one
\* entry per record of the page, in page order, each with search.mode
\* "match" and no other mode.
C21_SearchsetOfMatches ==
  (served /\ bundle.status = 200) =>
    LET page == paginate(sortStep(filterPatients(store, request.search, request.gender,
                                                 request.active),
                                  request.sort, orDefault(request.order, s_asc), today),
                         parseInt(orDefault(request.count, s_n10)),
                         parseInt(orDefault(request.offset, s_n0)))
    IN  /\ bundle.resourceType = "Bundle"
        /\ bundle.type = "searchset"
        /\ Len(bundle.entry) = Len(page)
        /\ \A i \in 1..Len(page) :
             /\ bundle.entry[i].resource = page[i]
             /\ bundle.entry[i].search.mode = "match"

\* C21 witness: the request without parameters returned the five records
\* in dataset order, every entry a match
C21_Witness ==
  /\ served /\ request = noRequest
  /\ bundle.type = "searchset"
  /\ entryIds(bundle) = <<"1", "2", "3", "4", "5">>
  /\ \A i \in 1..5 : bundle.entry[i].search.mode = "match"

\* C22: no request changes the record store: after any sequence of
\* requests, sorted ones included, the store holds the dataset in its
\* order, so a request without _sort returns the records in dataset order
\* and a request is answered as it would be on the untouched dataset.
C22_StoreUnchanged ==
  /\ store = mockPatients
  /\ served => bundle = GET(mockPatients, request, today)
  /\ (served /\ request = noRequest) => entryIds(bundle) = <<"1", "2", "3", "4", "5">>

\* C22 witness: a request sorted by name in descending order was answered,
\* the next request is waiting and the store is the dataset as seeded
C22_Witness ==
  /\ ~served /\ request = noRequest
  /\ entryIds(bundle) = <<"2", "5", "3", "1", "4">>
  /\ store = mockPatients

\* C23: with the active parameter present and non-empty, exactly the records
\* whose active flag equals b are kept, b being true only for the string
\* "true" and false for every other value ("false", "TRUE", any text).
C23_ActiveTrueOnlyForTrue ==
  (served /\ request.active # <<>> /\ request.search = <<>> /\ request.gender = <<>>) =>
    LET b    == request.active = s_true
        kept == {k \in 1..Len(store) : store[k].active = b}
    IN  /\ bundle.total = Cardinality(kept)
        /\ firstPage => idSet(bundle) = {store[k].id : k \in kept}

\* the position of a record in the dataset
storeIndex(id) == CHOOSE k \in 1..Len(store) : store[k].id = id

\* C24: for a _sort value other than Name, MRN and Age nothing is
\* reordered: whatever _order is, the entries are in dataset order and the
\* total and the page are those of the request without _sort.
C24_UnknownSortKeepsOrder ==
  (served /\ request.sort \notin {<<>>, s_Name, s_MRN, s_Age}) =>
    /\ bundle = GET(store, [request EXCEPT !.sort = <<>>], today)
    /\ \A i \in 1..(Len(bundle.entry) - 1) :
         storeIndex(bundle.entry[i].resource.id) < storeIndex(bundle.entry[i + 1].resource.id)

\* C24 witness: _sort=name (lower case) with _order=desc returned the five
\* records in dataset order
C24_Witness ==
  /\ served
  /\ request = [noRequest EXCEPT !.sort = s_name, !.order = s_desc]
  /\ bundle.total = 5
  /\ entryIds(bundle) = <<"1", "2", "3", "4", "5">>

(* ------------------------------------------------------------------ *)
(* Properties of the list controller (Spec)                             *)
(* ------------------------------------------------------------------ *)
\* the page the server holds for the given filters and page index
serverPage(f, page) ==
  resourcesOf(GET(store, urlParams(searchPatients(searchParams(f, page, sort))), today))

\* the query of a request for page 0 of the given filters
pageZeroQuery(f) ==
  searchPatients([searchParams(f, 0, sort) EXCEPT !.offset = <<0>>])

isPrefix(a, b) == Len(a) <= Len(b) /\ SubSeq(b, 1, Len(a)) = a

\* C6: "load more" with pages 0..k-1 accumulated requests _offset = k * 10
\* and, once the responses to the requests it caused are applied, the list
\* is the records accumulated before followed by the new page.
C6_LoadMoreAppendsPage ==
  /\ lastEvent.type = "loadMore" =>
       \E k \in 1..Len(inflight) :
         searchParamsGet(inflight[k].query, "_offset") =
           numberToString(currentPage * ITEMS_PER_PAGE)
  /\ (/\ loadMoreClick.pending /\ loadMoreClick.clean /\ ~loadMoreClick.failed
      /\ inflight = <<>>) =>
       state.patients = loadMoreClick.before \o serverPage(filters, loadMoreClick.page)

\* C7: a change of search text, gender, active or sort clears the list and
\* issues a request with _offset=0, _count=10 and the new filter values;
\* once its response is applied the list is that response's page and the
\* page index is 0.
C7_FilterChangeLoadsPageZero ==
  /\ lastEvent.type \in {"search", "filter", "sort"} =>
       /\ state.patients = <<>>
       /\ inflight # <<>>
       /\ inflight[Len(inflight)].reset
       /\ inflight[Len(inflight)].query = pageZeroQuery(filters)
       /\ searchParamsGet(inflight[Len(inflight)].query, "_offset") = s_n0
       /\ searchParamsGet(inflight[Len(inflight)].query, "_count") = s_n10
  /\ (lastEvent.type = "success" /\ lastEvent.cause \in {"filters", "sort"}) =>
       /\ state.patients = lastEvent.entries
       /\ currentPage = 0

\* C8: with loading false and error null, hasMore is exactly
\* (accumulated count < total), so no "load more" once the count reached
\* the total.
C8_HasMoreIffBelowTotal ==
  (~state.loading /\ state.error.isNull) =>
    /\ state.hasMore = (Len(state.patients) < state.total)
    /\ Len(state.patients) >= state.total => "loadMoreButton" \notin view(state)

\* C8 witness: a second page was appended and the count reached the total
C8_Witness ==
  /\ ~state.loading /\ state.error.isNull
  /\ lastEvent.type = "success" /\ ~lastEvent.reset
  /\ Len(state.patients) = 12 /\ state.total = 12
  /\ ~state.hasMore

\* C9: when a fetch started by "load more" fails, error is the failure's
\* message, loading is false and the records accumulated before the click
\* are still in the list.
C9_LoadMoreFailureKeepsList ==
  (/\ lastEvent.type = "failure"
   /\ lastEvent.cause \in {"loadMore", "loadMoreReset"}
   /\ loadMoreClick.pending /\ loadMoreClick.clean) =>
    /\ state.error = ErrorOf(lastEvent.message)
    /\ ~state.loading
    /\ isPrefix(loadMoreClick.before, state.patients)

\* C10: after a fetch failure, whatever its message, once no request is
\* outstanding the error is shown with a retry control (full page when the
\* list is empty, inline otherwise) and never "No patients found".
C10_FailureShowsErrorWithRetry ==
  (lastEvent.type = "failure" /\ inflight = <<>>) =>
    /\ IF Len(state.patients) = 0
       THEN {"fullPageError", "tryAgain"} \subseteq view(state)
       ELSE {"inlineError", "retry"} \subseteq view(state)
    /\ "noPatientsFound" \notin view(state)

\* C11: from a state in which an error is shown and nothing is loading,
\* loading becomes true only by the retry action; no filter change, sort
\* change or "load more" starts a load from the error state.
C11_ErrorToLoadingOnlyByRetry ==
  [][(truthy(state.error) /\ ~state.loading /\ state'.loading) =>
       lastEvent'.type = "retry"]_vars

\* C12: a retry click issues exactly one new request, with _offset=0 and
\* the current filters, and sets loading true and error null; when that
\* request was the only one outstanding and it succeeds, the list is exactly
\* the returned page, error is still null and no further request is issued.
C12_RetryReloadsPageZero ==
  [][/\ lastEvent'.type = "retry" =>
          /\ Len(inflight') = Len(inflight) + 1
          /\ SubSeq(inflight', 1, Len(inflight)) = inflight
          /\ inflight'[Len(inflight')].query = pageZeroQuery(filters)
          /\ searchParamsGet(inflight'[Len(inflight')].query, "_offset") = s_n0
          /\ state'.loading /\ state'.error.isNull
     /\ (lastEvent.type = "retry" /\ Len(inflight) = 1 /\ lastEvent'.type = "success") =>
          /\ state'.patients = lastEvent'.entries
          /\ state'.error.isNull
          /\ inflight' = <<>>]_vars

\* C13: responses are not fenced by request generation: when the response
\* to a call that is not the newest outstanding one arrives, it is applied
\* like any other, so the list, total and hasMore become those of the older
\* request while the newer one is still outstanding.
C13_StaleResponseApplied ==
  [][\A i \in 1..(Len(inflight) - 1) :
       (lastEvent'.type = "success" /\ inflight' = removeAt(inflight, i)
          /\ lastEvent'.cause = inflight[i].cause) =>
         /\ state'.patients =
              (IF inflight[i].reset THEN <<>> ELSE state.patients) \o lastEvent'.entries
         /\ state'.total = GET(store, urlParams(inflight[i].query), today).total
         /\ state'.hasMore = (Len(state'.patients) < state'.total)
         /\ ~state'.loading]_vars

\* C13 witness: the response to the mount request arrived after the response
\* to the search request issued later, and the list shown for the search
\* text is the unfiltered page
C13_Witness ==
  /\ lastEvent.type = "success" /\ lastEvent.cause = "mount"
  /\ filters.search = s_son
  /\ inflight = <<>> /\ ~state.loading
  /\ state.patients = lastEvent.entries
  /\ state.patients # serverPage(filters, 0)
  /\ state.total # Len(serverPage(filters, 0))

\* C26: every request the controller issues carries _sort and _order equal
\* to the controller's sort key and direction at the time (Name / asc at
\* the start), so a loaded first page is in the selected order.
C26_SortReachesEndpoint ==
  /\ (lastEvent.type \in {"mount", "search", "filter", "clear", "sort", "loadMore", "retry"}
        /\ inflight # <<>>) =>
       /\ searchParamsGet(inflight[Len(inflight)].query, "_sort") = sort.sortBy
       /\ searchParamsGet(inflight[Len(inflight)].query, "_order") = sort.order
  /\ (lastEvent.type = "success" /\ lastEvent.reset /\ inflight = <<>>) =>
       lastEvent.entries =
         resourcesOf(GET(store,
                         [urlParams(pageZeroQuery(filters)) EXCEPT !.sort = sort.sortBy,
                                                                  !.order = sort.order],
                         today))

\* C27: loading is false only if no request of the controller is
\* outstanding, so "load more" is not offered during an outstanding fetch.
C27_LoadingWhileOutstanding ==
  /\ ~state.loading => inflight = <<>>
  /\ "loadMoreButton" \in view(state) => inflight = <<>>

\* C28: whatever the user actions and the order of the responses, the
\* accumulated list contains each record id at most once.
C28_IdsUniqueInList ==
  \A i, j \in 1..Len(state.patients) :
    i # j => state.patients[i] # state.patients[j]

\* C29: with no request outstanding and error null, the accumulated count
\* is min(total, (currentPage + 1) * 10), hence at most total, and the next
\* "load more" asks for the offset equal to the count.
C29_CountMatchesPageIndex ==
  (inflight = <<>> /\ state.error.isNull) =>
    /\ Len(state.patients) = Min(state.total, (currentPage + 1) * ITEMS_PER_PAGE)
    /\ Len(state.patients) <= state.total
    /\ "loadMoreButton" \in view(state) =>
         searchParams(filters, currentPage + 1, sort).offset = <<Len(state.patients)>>

\* the controller at rest: no request outstanding and loading false
quiescent == inflight = <<>> /\ ~state.loading

\* the requests still to complete before the controller is at rest: those
\* outstanding, and the one refetch that a page reset will cause
requestsToCome == Len(inflight) + (IF currentPage # 0 THEN 1 ELSE 0)

\* C30: when every issued request completes, the controller comes to rest
\* after the last user action (no request outstanding, loading false) and
\* stays there; between user actions every completed request leaves fewer
\* requests to come, so a user action causes finitely many requests and no
\* refetch loop.
C30_ComesToRest ==
  /\ <>[]quiescent
  /\ [][userActions' = userActions => requestsToCome' < requestsToCome]_vars

\* at rest after a user action one of whose responses caused a refetch
C30_Witness ==
  /\ quiescent
  /\ userActions > 0
  /\ lastEvent.type = "success" /\ lastEvent.cause = "pageReset"

(* ------------------------------------------------------------------ *)
(* Properties of FHIRService and FHIRUtils (SpecClient)                 *)
(* ------------------------------------------------------------------ *)
SearchKeys == <<"_search", "gender", "active", "_count", "_offset">>

\* the value a parameter object holds for a key, numbers in decimal
paramOf(p, key) ==
  IF key = "_search" THEN p.search
  ELSE IF key = "gender" THEN p.gender
  ELSE IF key = "active" THEN p.active
  ELSE IF key = "_count" THEN (IF p.count = <<>> THEN undefined ELSE numberToString(p.count[1]))
  ELSE (IF p.offset = <<>> THEN undefined ELSE numberToString(p.offset[1]))

isDefined(v) == v # undefined /\ v # null /\ v # <<>>

\* C14: searchPatients fetches {base}/Patient with exactly the keys among
\* _search, gender, active, _count, _offset whose value is defined, non-null
\* and not '', in that order, each with its value, and no other key; with
\* only _count defined the query is _count alone, and with nothing defined
\* the URL has no query string.
C14_QueryHasExactlyDefinedKeys ==
  (result.done /\ directCall.fn = "searchPatients") =>
    LET p        == directCall.params
        expected == SelectSeq(SearchKeys, LAMBDA key : isDefined(paramOf(p, key)))
    IN  /\ SubSeq(result.url, 1, 3) = <<"http://localhost:3000", "/api/fhir", "/Patient">>
        /\ Len(result.query) = Len(expected)
        /\ \A i \in 1..Len(expected) :
             result.query[i] = <<expected[i], paramOf(p, expected[i])>>
        /\ (expected = <<"_count">> /\ p.count = <<10>>) =>
             result.url = <<"http://localhost:3000", "/api/fhir", "/Patient",
                            "?", "_count", "=", "1", "0">>
        /\ expected = <<>> => Len(result.url) = 3
        /\ expected # <<>> => (Len(result.url) > 3 /\ result.url[4] = "?")

\* C14 witness: a search text with a space, gender '', active null and
\* _count 0 gave the query _search=d+s&_count=0
C14_Witness ==
  /\ result.done /\ directCall.fn = "searchPatients"
  /\ directCall.params.search = s_d_s /\ directCall.params.gender = <<>>
  /\ directCall.params.active = null /\ directCall.params.count = <<0>>
  /\ directCall.params.offset = <<>> /\ directCall.params.sort = s_Name
  /\ result.url = <<"http://localhost:3000", "/api/fhir", "/Patient", "?",
                    "_search", "=", "d", "+", "s", "&", "_count", "=", "0">>

\* the text of one issue: its diagnostics, or "<severity>: <code>" without
issueText(issue) ==
  IF issue.diagnostics # "" THEN <<issue.diagnostics>>
  ELSE <<issue.severity, ": ", issue.code>>

RECURSIVE commaJoined(_)
commaJoined(issues) ==
  IF issues = <<>> THEN <<>>
  ELSE IF Len(issues) = 1 THEN issueText(issues[1])
  ELSE issueText(issues[1]) \o <<", ">> \o commaJoined(Tail(issues))

\* C15: on a non-success response an Error is thrown and no bundle is
\* returned; its message is the issues' texts joined by ", " when the body
\* decodes to an OperationOutcome and "HTTP <status>: <statusText>" when the
\* body is not decodable or not an OperationOutcome.  On a success response
\* the decoded body is returned unchanged.
C15_ErrorMessageFromOutcome ==
  (result.done /\ directCall.fn = "searchPatients") =>
    LET r == directCall.response
    IN  /\ r.status \notin 200..299 =>
             /\ result.threw
             /\ result.body = [decodable |-> FALSE]
             /\ result.message =
                  IF r.body.decodable /\ r.body.resourceType = "OperationOutcome"
                  THEN commaJoined(r.body.issue)
                  ELSE <<"HTTP ", ToString(r.status), ": ", r.statusText>>
        /\ (r.status \in 200..299 /\ r.body.decodable) =>
             (~result.threw /\ result.body = r.body)
        /\ r = internalError =>
             result.message =
               <<"Internal server error occurred while processing the request">>
        /\ r = emptyObject => result.message = <<"HTTP ", "500", ": ", "Internal Server Error">>

\* C15 witness: an outcome of two issues, the second without diagnostics,
\* was turned into "Invalid search parameter, warning: invalid"
C15_Witness ==
  /\ result.done /\ directCall.fn = "searchPatients"
  /\ directCall.response = twoIssues
  /\ result.threw
  /\ result.message = <<"Invalid search parameter", ", ", "warning", ": ", "invalid">>

\* (m1, d1) comes before (m2, d2) in the calendar year
precedes(m1, d1, m2, d2) == m1 < m2 \/ (m1 = m2 /\ d1 < d2)

\* C16: for a valid birth date (by, bm, bd) and the current date
\* (cy, cm, cd), calculateAge returns cy - by, minus one when (cm, cd)
\* precedes (bm, bd); 1985-03-15 on 2024-01-15 gives 38 and 1985-01-01 on
\* the same day gives 39.
C16_AgeInWholeYears ==
  (result.done /\ directCall.fn = "calculateAge"
     /\ truthyString(directCall.birthDate) /\ newDate(directCall.birthDate).valid) =>
    LET birth == newDate(directCall.birthDate)
    IN  /\ ~result.age.isNull /\ ~result.age.nan
        /\ result.age.v =
             (today.y - birth.y) -
             (IF precedes(today.m, today.d, birth.m, birth.d) THEN 1 ELSE 0)
        /\ (birth.y = 1985 /\ birth.m = 3 /\ birth.d = 15
              /\ today.y = 2024 /\ today.m = 1 /\ today.d = 15) => result.age.v = 38
        /\ (birth.y = 1985 /\ birth.m = 1 /\ birth.d = 1
              /\ today.y = 2024 /\ today.m = 1 /\ today.d = 15) => result.age.v = 39

\* C17: calculateAge returns null, never a number, when the birth date is
\* missing or is a string that does not parse to a date.
C17_AgeNullWhenInvalid ==
  (result.done /\ directCall.fn = "calculateAge"
     /\ (~truthyString(directCall.birthDate) \/ ~newDate(directCall.birthDate).valid)) =>
    (result.age.isNull /\ ~result.threw)

\* C18: formatBirthDate returns "N/A" for a missing birth date and the raw
\* input for a string that does not parse to a date; only a valid date is
\* reformatted.
C18_FormatKeepsUnparsedInput ==
  (result.done /\ directCall.fn = "formatBirthDate") =>
    /\ ~result.threw
    /\ ~truthyString(directCall.birthDate) => result.text = s_NA
    /\ (truthyString(directCall.birthDate) /\ ~newDate(directCall.birthDate).valid) =>
         result.text = directCall.birthDate

\* C25: the age computation is shared: for every birth-date value (valid,
\* in the future, invalid or missing) and every current date, calculateAge
\* and getPatientAge return the value the endpoint uses as its Age sort key.
C25_OneAgeComputation ==
  (result.done /\ directCall.fn \in {"calculateAge", "getPatientAge"}) =>
    result.age = [isNull |-> FALSE, nan |-> FALSE, v |-> getAge(directCall.birthDate, today)]

====
